---- MODULE Spec2Model ----
(***************************************************************************)
(* StreamHib: session lifecycle, reconciliation sweep and scheduler.       *)
(*                                                                         *)
(* The persisted store (sessions.json), the systemd units stream-<id>,     *)
(* the videos directory and the APScheduler job table are the shared       *)
(* state.  Request handlers and timer callbacks run on threads; each       *)
(* handler is cut into steps at the points where it touches shared state   *)
(* (a supervisor call, the load of the store, the open and the write of    *)
(* the save), so that the interleavings the code allows are the            *)
(* interleavings of the model.                                             *)
(***************************************************************************)
EXTENDS Integers, Sequences, FiniteSets, TLC

VARIABLES
    file,       \* sessions.json: [kind: "missing" | "blank" | "partial" | "json", data: its JSON content]
    lock,       \* holder of sessions_lock, or NoThread
    units,      \* systemd: session id -> "none" | "dead" | "running" (unit stream-<id>)
    videos,     \* file names present under VIDEOS_DIR
    jobs,       \* APScheduler job table: pending date-trigger jobs
    now,        \* wall clock
    th,         \* per thread: position in its handler and the handler's locals
    created,    \* history: ids a create has saved and returned to its caller
    prev,       \* history: summary of the operation that completed last
    disturbed,  \* history: what of "units", "videos", "probe" changed or failed since the last return
    ops         \* number of handlers begun so far

vars == <<file, lock, units, videos, jobs, now, th, created, prev, disturbed, ops>>

----------------------------------------------------------------------------
(* Bounds *)

MaxTime == 2        \* the clock runs 0..MaxTime
MaxOps == 2         \* handlers (requests, sweeps, timer callbacks) begun in one behaviour

MaxIdLen == 50      \* sanitized[:50]

----------------------------------------------------------------------------
(* Values *)

NONE == "<none>"            \* a missing / falsy string field (None or '')
Unset == << >>              \* a missing numeric field; a present one is <<n>>
NoThread == "<nobody>"
Threads == {"t1", "t2"}

Stamp(t) == <<t>>

\* Characters are one-letter strings, names are sequences of characters.
WordChars == {"a", "b", "_", "M", "y", "S", "h", "o", "w"}
NameA == <<"a">>
NameB == <<"b", "!">>
NameBang == <<"!", " ">>
NameMyShow == <<"M", "y", " ", "S", "h", "o", "w", "!">>
Owner == <<"a">>           \* the one registered account

VideoFiles == {"v1.mp4"}
StreamKey == "abc"

Min(a, b) == IF a < b THEN a ELSE b

----------------------------------------------------------------------------
(* sanitize_service_name *)

\* re.sub(r'[^\w-]', '-', name)
ReplaceNonWord(s) ==
    [i \in 1..Len(s) |-> IF s[i] \in WordChars \/ s[i] = "-" THEN s[i] ELSE "-"]

\* re.sub(r'-+', '-', s)
RECURSIVE CollapseHyphens(_)
CollapseHyphens(s) ==
    IF Len(s) <= 1 THEN s
    ELSE IF s[1] = "-" /\ s[2] = "-" THEN CollapseHyphens(Tail(s))
    ELSE <<s[1]>> \o CollapseHyphens(Tail(s))

\* s.strip('-')
RECURSIVE StripHyphens(_)
StripHyphens(s) ==
    IF Len(s) = 0 THEN s
    ELSE IF s[1] = "-" THEN StripHyphens(Tail(s))
    ELSE IF s[Len(s)] = "-" THEN StripHyphens(SubSeq(s, 1, Len(s) - 1))
    ELSE s

sanitize_service_name(name) ==
    LET stripped == StripHyphens(CollapseHyphens(ReplaceNonWord(name)))
    IN SubSeq(stripped, 1, Min(Len(stripped), MaxIdLen))

\* Any platform but Facebook goes to the YouTube prefix (for C20's check).
RtmpUrlDefaulting(platform) ==
    IF platform = "Facebook" THEN "rtmps://live-api-s.facebook.com:443/rtmp"
    ELSE "rtmp://a.rtmp.youtube.com/live2"

\* The platform -> destination prefix table of create and of the sweep.
RtmpUrl(platform) ==
    IF platform = "YouTube" THEN "rtmp://a.rtmp.youtube.com/live2"
    ELSE IF platform = "Facebook" THEN "rtmps://live-api-s.facebook.com:443/rtmp"
    ELSE NONE

----------------------------------------------------------------------------
(* The store *)

EmptyBucket == [k \in {} |-> NONE]

\* load_sessions' default: three empty buckets
DefaultStore ==
    [active_sessions |-> EmptyBucket,
     inactive_sessions |-> EmptyBucket,
     scheduled_sessions |-> EmptyBucket]

Put(bucket, k, v) == [x \in DOMAIN bucket \cup {k} |-> IF x = k THEN v ELSE bucket[x]]
Del(bucket, k) == [x \in DOMAIN bucket \ {k} |-> bucket[x]]

\* The backing file: absent, zero-length or whitespace ("blank"), cut off in
\* the middle of a dump ("partial"), or a complete JSON document.
FileOf(data) == [kind |-> "json", data |-> data]
MissingFile == [kind |-> "missing", data |-> DefaultStore]
TruncatedFile == [kind |-> "blank", data |-> DefaultStore]
PartialFile == [kind |-> "partial", data |-> DefaultStore]

\* Only a file that does not exist yields default_data silently (for C18's
\* check).
load_json_file_strict(f, default_data) ==
    IF f.kind = "missing" THEN [data |-> default_data, error |-> FALSE]
    ELSE IF f.kind \in {"blank", "partial"} THEN [data |-> default_data, error |-> TRUE]
    ELSE [data |-> f.data, error |-> FALSE]

\* load_json_file: a file that does not exist, or whose stripped content is
\* empty, yields default_data; json.loads of a cut-off document raises
\* JSONDecodeError, which is logged and yields default_data as well.
load_json_file(f, default_data) ==
    IF f.kind \in {"missing", "blank"} THEN [data |-> default_data, error |-> FALSE]
    ELSE IF f.kind = "partial" THEN [data |-> default_data, error |-> TRUE]
    ELSE [data |-> f.data, error |-> FALSE]

\* load_sessions passes the three empty buckets as default_data.
load_sessions(f) == load_json_file(f, DefaultStore).data

\* A session record.  Every field a handler reads or writes is a field here;
\* NONE / Unset stand for a key the dict does not have.
SessionRecord(username, video_file, platform, stream_key, rtmp_url, started_at) ==
    [username |-> username, video_file |-> video_file, platform |-> platform,
     stream_key |-> stream_key, rtmp_url |-> rtmp_url, started_at |-> started_at,
     status |-> "active", stopped_at |-> Unset, stop_reason |-> NONE,
     recovered_at |-> Unset, recovery_count |-> Unset]

\* session_info.get('recovery_count', 0)
RecoveryCount(rec) == IF rec.recovery_count = Unset THEN 0 ELSE rec.recovery_count[1]

----------------------------------------------------------------------------
(* Requests and initial content *)

AllNames == {NameA, NameB, NameBang}
AllIds == {sanitize_service_name(n) : n \in AllNames}

Request(platform, stream_key, video_file, session_name) ==
    [platform |-> platform, stream_key |-> stream_key,
     video_file |-> video_file, session_name |-> session_name]

NoRequest == Request(NONE, NONE, NONE, << >>)

\* The bodies a client posts to /api/start.
Requests ==
    {Request("YouTube", StreamKey, "v1.mp4", NameA),
     Request("Facebook", StreamKey, "v1.mp4", NameB),
     Request("YouTube", StreamKey, "v1.mp4", NameBang),
     Request("Twitch", StreamKey, "v1.mp4", NameA),
     Request("YouTube", NONE, "v1.mp4", NameB)}

\* The bodies posted to /api/schedule (without start_time and duration).
ScheduleRequests ==
    {Request("YouTube", StreamKey, "v1.mp4", NameA),
     Request("YouTube", StreamKey, NONE, NameA)}

\* Records a store file carried over from an earlier run may hold in its
\* active bucket: the sweep has a branch for each of them.
LegacyRecords ==
    {SessionRecord(Owner, NONE, "YouTube", StreamKey, NONE, Stamp(0)),
     SessionRecord(Owner, "v1.mp4", "Twitch", StreamKey, NONE, Stamp(0)),
     SessionRecord(Owner, "v1.mp4", "YouTube", StreamKey, RtmpUrl("YouTube"), Stamp(0)),
     SessionRecord(Owner, "v1.mp4", NONE, StreamKey, RtmpUrl("YouTube"), Stamp(0))}

NoUnits == [i \in AllIds |-> "none"]

WithActive(id, r) == [DefaultStore EXCEPT !.active_sessions = Put(EmptyBucket, id, r)]

\* What the process finds when it starts: no store file; a store file carried
\* over whose units are gone; or the session an earlier /api/start for
\* session name "a" left behind, its unit running.
InitialStates ==
    {[file |-> MissingFile, units |-> NoUnits]}
    \cup {[file |-> FileOf(WithActive(NameA, r)), units |-> NoUnits] : r \in LegacyRecords}
    \cup {[file |-> FileOf(WithActive(NameA,
                        SessionRecord(Owner, "v1.mp4", "YouTube", StreamKey, NONE, Stamp(0)))),
           units |-> [NoUnits EXCEPT ![NameA] = "running"]]}

----------------------------------------------------------------------------
(* Threads *)

Idle ==
    [pc |-> "idle", op |-> "none", impl |-> "none", ctx |-> "none",
     id |-> << >>, req |-> NoRequest,
     snap |-> DefaultStore, pre |-> MissingFile, seen |-> MissingFile,
     units0 |-> NoUnits, jobs0 |-> {}, start |-> 0, duration |-> 0,
     todo |-> {}, recovered |-> 0, moved |-> 0, total |-> 0,
     fret |-> "none", resp |-> "none",
     unit |-> "none", stop |-> "none", saved |-> "none",
     obs |-> EmptyBucket, dest |-> Unset,
     units1 |-> NoUnits, listed |-> {}, touched |-> {}, cleanup_count |-> 0]

NoPrev == [op |-> "other", impl |-> "none", id |-> << >>, saved |-> "none"]

Init ==
    /\ \E i \in InitialStates : file = i.file /\ units = i.units
    /\ lock = NoThread
    /\ videos = VideoFiles
    /\ jobs = {}
    /\ now = 0
    /\ th = [t \in Threads |-> Idle]
    /\ created = {}
    /\ prev = NoPrev
    /\ disturbed = {}
    /\ ops = 0

----------------------------------------------------------------------------
(* Process Supervisor Adapter *)

\* create_systemd_service: write the unit file, daemon-reload, enable, start.
\* Any step may raise, before or after the unit file exists.
StartOutcomes == {"ok", "failed_before_write", "failed_after_write"}

UnitAfterStart(u, outcome) ==
    IF outcome = "ok" THEN "running"
    ELSE IF outcome = "failed_before_write" THEN u
    ELSE IF u = "running" THEN "running" ELSE "dead"

\* stop_systemd_service: stop, disable, remove the unit file, daemon-reload.
\* It fails when systemctl cannot be run (nothing done) or when the final
\* daemon-reload fails (unit already stopped and removed).
StopOutcomes == {"ok", "failed_unchanged", "failed_removed"}

UnitAfterStop(u, outcome) ==
    IF outcome = "failed_unchanged" THEN u ELSE "none"

\* is_service_running: 'active' on stdout; a probe that raises reports False.
is_service_running(u, probeRaises) == (u = "running") /\ ~probeRaises

----------------------------------------------------------------------------
(* Steps shared by every handler *)

Set(t, rec) == th' = [th EXCEPT ![t] = rec]

\* A request arrives or the interval job of the scheduler fires.
Begun == ops < MaxOps /\ ops' = ops + 1

\* A date job of the scheduler fires.  Where handlers interleave it counts as
\* one of the MaxOps handlers; the jobs registered bound it otherwise.
Fired(counted) == IF counted THEN Begun ELSE ops' = ops

\* A handler has returned: its locals stay readable until Return clears them.
\* The manual recovery goes on to cleanup_unused_services when its
\* recovery_orphaned_sessions has returned.
AfterwardsPc(rec) ==
    IF rec.op = "sweep" /\ rec.ctx = "manual" THEN "cleanup" ELSE "done"

Finish(rec, fret, resp) == [rec EXCEPT !.pc = AfterwardsPc(rec), !.fret = fret, !.resp = resp]

\* Every caller ignores the value save_sessions returns: what the handler
\* answers after the save is what it had decided before it.
ResultAfterSave(rec, saved) == [rec EXCEPT !.pc = AfterwardsPc(rec), !.saved = saved]

\* save_json_file, first half: take the lock and open(file_path, 'w'), which
\* truncates the file.  open may raise: the file is untouched, the lock is
\* released and False is returned.
SaveOpen(t) ==
    /\ th[t].pc = "open"
    /\ lock = NoThread
    /\ \/ /\ file' = TruncatedFile
          /\ lock' = t
          /\ Set(t, [th[t] EXCEPT !.pc = "write"])
       \/ /\ Set(t, ResultAfterSave(th[t], "failed"))
          /\ UNCHANGED <<file, lock>>
    /\ UNCHANGED <<units, videos, jobs, now, created, prev, disturbed, ops>>

\* json.dump outside `with lock`: the lock is never released (for C36's check).
SaveWriteHolding(t) ==
    /\ th[t].pc = "write"
    /\ lock = t
    /\ \/ /\ file' = FileOf(th[t].snap)
          /\ Set(t, ResultAfterSave(th[t], "ok"))
       \/ /\ file' \in {TruncatedFile, PartialFile}
          /\ Set(t, ResultAfterSave(th[t], "failed"))
    /\ UNCHANGED <<lock, units, videos, jobs, now, created, prev, disturbed, ops>>

\* save_json_file, second half: json.dump into the truncated file, then leave
\* the with-blocks.  A dump that raises leaves the file empty or cut off.
SaveWrite(t) ==
    /\ th[t].pc = "write"
    /\ lock = t
    /\ \/ /\ file' = FileOf(th[t].snap)
          /\ Set(t, ResultAfterSave(th[t], "ok"))
       \/ /\ file' \in {TruncatedFile, PartialFile}
          /\ Set(t, ResultAfterSave(th[t], "failed"))
    /\ lock' = NoThread
    /\ UNCHANGED <<units, videos, jobs, now, created, prev, disturbed, ops>>

\* What is remembered of the handler that returned last: a stop that
\* answered success, a start timer whose unit was started, or a sweep and
\* what became of its save.
Summary(rec) ==
    IF rec.op \in {"stop", "admin_stop"} /\ rec.resp = "success"
    THEN [op |-> rec.op, impl |-> rec.impl, id |-> rec.id, saved |-> "none"]
    ELSE IF rec.op = "create" /\ rec.ctx = "timer" /\ rec.unit = "started"
    THEN [op |-> "timer_create", impl |-> rec.impl, id |-> rec.id, saved |-> "none"]
    ELSE IF rec.op = "sweep"
    THEN [op |-> rec.op, impl |-> rec.impl, id |-> rec.id, saved |-> rec.saved]
    ELSE NoPrev

Return(t) ==
    /\ th[t].pc = "done"
    /\ Set(t, Idle)
    /\ prev' = Summary(th[t])
    /\ created' = IF th[t].op = "create" /\ th[t].resp = "success" /\ th[t].saved = "ok"
                  THEN created \cup {th[t].id} ELSE created
    /\ disturbed' = {}
    /\ UNCHANGED <<file, lock, units, videos, jobs, now, ops>>

----------------------------------------------------------------------------
(* create: start_streaming_api, start_scheduled_streaming, create_streaming_session *)

AllFields(req) ==
    /\ req.platform # NONE
    /\ req.stream_key # NONE
    /\ req.video_file # NONE
    /\ req.session_name # << >>

\* The dict create_streaming_session puts in the active bucket.
NewSessionRecord(username, req, t) ==
    SessionRecord(username, req.video_file, req.platform, req.stream_key, NONE, Stamp(t))

\* start_streaming_api turns the returned id into a response: `if session_id`.
StartResponse(id) == IF id # << >> THEN "success" ELSE "error"

\* full_rtmp_url = f"{rtmp_url}/{stream_key}", the destination in ExecStart
FullRtmpUrl(rtmp_url, stream_key) == <<rtmp_url, "/", stream_key>>

Destination(req) == FullRtmpUrl(RtmpUrl(req.platform), req.stream_key)

\* create_streaming_session up to and including create_systemd_service.
CreateUnit(t, ctx, req) ==
    LET id == sanitize_service_name(req.session_name)
        rec == [Idle EXCEPT !.op = "create", !.ctx = ctx, !.req = req,
                            !.id = id, !.pre = file,
                            !.units0 = units, !.jobs0 = jobs]
    IN IF RtmpUrl(req.platform) = NONE
       THEN /\ Set(t, Finish(rec, "none", "error"))
            /\ units' = units
       ELSE \E outcome \in StartOutcomes :
            /\ units' = [units EXCEPT ![id] = UnitAfterStart(@, outcome)]
            /\ IF outcome = "ok"
               THEN Set(t, [rec EXCEPT !.pc = "load", !.unit = "started",
                                       !.dest = Destination(req)])
               ELSE Set(t, Finish([rec EXCEPT !.unit = "failed",
                                              !.dest = Destination(req)],
                                  "none", "error"))

\* POST /api/start
StartApi(t, req) ==
    /\ th[t].pc = "idle"
    /\ Begun
    /\ IF ~AllFields(req)
       THEN /\ Set(t, Finish([Idle EXCEPT !.op = "create", !.ctx = "request",
                                         !.req = req, !.pre = file,
                                         !.units0 = units, !.jobs0 = jobs],
                             "none", "bad_request"))
            /\ units' = units
       ELSE IF req.video_file \notin videos
       THEN /\ Set(t, Finish([Idle EXCEPT !.op = "create", !.ctx = "request",
                                         !.req = req, !.pre = file,
                                         !.units0 = units, !.jobs0 = jobs],
                             "none", "not_found"))
            /\ units' = units
       ELSE CreateUnit(t, "request", req)
    /\ UNCHANGED <<file, lock, videos, jobs, now, created, prev, disturbed>>

\* A due start job runs start_scheduled_streaming on a scheduler thread; a
\* date-trigger job leaves the job table when it runs.
TimerStart(t, job, counted) ==
    /\ th[t].pc = "idle"
    /\ job \in jobs
    /\ job.kind = "start"
    /\ job.run_date <= now
    /\ Fired(counted)
    /\ jobs' = jobs \ {job}
    /\ CreateUnit(t, "timer", job.req)
    /\ UNCHANGED <<file, lock, videos, now, created, prev, disturbed>>

\* create_streaming_session from load_sessions to save_sessions.  The owner
\* is read from the flask session: outside a request context the read raises,
\* the except branch returns None, and nothing is written.
CreateLoad(t) ==
    /\ th[t].pc = "load"
    /\ th[t].op = "create"
    /\ LET rec == th[t]
           data == load_sessions(file)
           new == NewSessionRecord(Owner, rec.req, now)
       IN IF rec.ctx = "timer"
          THEN Set(t, Finish([rec EXCEPT !.seen = file, !.snap = data], "none", "error"))
          ELSE Set(t, [rec EXCEPT
                         !.seen = file,
                         !.snap = [data EXCEPT !.active_sessions = Put(@, rec.id, new)],
                         !.pc = "open", !.fret = "id",
                         !.resp = StartResponse(rec.id)])
    /\ UNCHANGED <<file, lock, units, videos, jobs, now, created, prev, disturbed, ops>>

----------------------------------------------------------------------------
(* stop: stop_streaming_api, stop_streaming_session, stop_scheduled_streaming,
   and api_stop_session of app.py *)

\* inactive_sessions[id] = session_info; del active_sessions[id]
MoveToInactive(data, id, rec) ==
    [data EXCEPT !.inactive_sessions = Put(@, id, rec),
                 !.active_sessions = Del(@, id)]

\* A stop that blanks the stream key of the record it moves (for C32's check).
StopRecordRedacting(rec, t) ==
    [rec EXCEPT !.stopped_at = Stamp(t), !.status = "inactive", !.stream_key = NONE]

\* stop_streaming_session stamps stopped_at and status.
StopRecord(rec, t) == [rec EXCEPT !.stopped_at = Stamp(t), !.status = "inactive"]

\* api_stop_session stamps stopped_at and stop_reason.
AdminStopRecord(rec, t) ==
    [rec EXCEPT !.stopped_at = Stamp(t), !.stop_reason = "Stopped by admin"]

\* stop_streaming_session's call of stop_systemd_service, made before the
\* store is looked at; a failure is logged and the handler goes on.
StopUnitThenLoad(t, rec) ==
    \E outcome \in StopOutcomes :
        /\ units' = [units EXCEPT ![rec.id] = UnitAfterStop(@, outcome)]
        /\ Set(t, [rec EXCEPT !.pc = "load",
                              !.stop = IF outcome = "ok" THEN "ok" ELSE "failed"])

\* POST /api/stop
StopApi(t, id) ==
    /\ th[t].pc = "idle"
    /\ Begun
    /\ LET rec == [Idle EXCEPT !.op = "stop", !.ctx = "request", !.id = id, !.pre = file,
                            !.units0 = units, !.jobs0 = jobs]
       IN IF id = << >>
          THEN /\ Set(t, Finish(rec, "none", "bad_request"))
               /\ units' = units
          ELSE StopUnitThenLoad(t, rec)
    /\ UNCHANGED <<file, lock, videos, jobs, now, created, prev, disturbed>>

\* stop_streaming_session from load_sessions on.
StopLoad(t) ==
    /\ th[t].pc = "load"
    /\ th[t].op = "stop"
    /\ LET rec == th[t]
           data == load_sessions(file)
       IN IF rec.id \in DOMAIN data.active_sessions
          THEN Set(t, [rec EXCEPT
                         !.seen = file,
                         !.snap = MoveToInactive(data, rec.id,
                                      StopRecord(data.active_sessions[rec.id], now)),
                         !.pc = "open", !.fret = "true", !.resp = "success"])
          ELSE Set(t, Finish([rec EXCEPT !.seen = file, !.snap = data], "false", "error"))
    /\ UNCHANGED <<file, lock, units, videos, jobs, now, created, prev, disturbed, ops>>

\* A due stop job runs stop_scheduled_streaming: it looks in the active
\* bucket for a record whose 'username' equals the session name.
TimerStop(t, job, counted) ==
    /\ th[t].pc = "idle"
    /\ job \in jobs
    /\ job.kind = "stop"
    /\ job.run_date <= now
    /\ Fired(counted)
    /\ jobs' = jobs \ {job}
    /\ LET data == load_sessions(file)
           found == {sid \in DOMAIN data.active_sessions :
                        data.active_sessions[sid].username = job.req.session_name}
           rec == [Idle EXCEPT !.op = "stop", !.ctx = "timer", !.req = job.req,
                               !.pre = file, !.units0 = units, !.jobs0 = jobs,
                               !.seen = file, !.snap = data]
       IN IF found = {}
          THEN Set(t, Finish(rec, "none", "none"))
          ELSE \E sid \in found : Set(t, [rec EXCEPT !.pc = "stop_unit", !.id = sid])
    /\ UNCHANGED <<file, lock, units, videos, now, created, prev, disturbed>>

\* stop_scheduled_streaming's call of stop_streaming_session, first statement.
TimerStopUnit(t) ==
    /\ th[t].pc = "stop_unit"
    /\ th[t].op = "stop"
    /\ StopUnitThenLoad(t, th[t])
    /\ UNCHANGED <<file, lock, videos, jobs, now, created, prev, disturbed, ops>>

\* POST /api/sessions/stop/<session_id> of app.py, up to the supervisor call.
AdminStop(t, id) ==
    /\ th[t].pc = "idle"
    /\ Begun
    /\ LET data == load_sessions(file)
           rec == [Idle EXCEPT !.op = "admin_stop", !.ctx = "request", !.id = id,
                               !.pre = file, !.units0 = units, !.jobs0 = jobs,
                               !.seen = file, !.snap = data]
       IN IF id \notin DOMAIN data.active_sessions
          THEN Set(t, Finish(rec, "none", "not_found"))
          ELSE Set(t, [rec EXCEPT !.pc = "stop_unit"])
    /\ UNCHANGED <<file, lock, units, videos, jobs, now, created, prev, disturbed>>

\* api_stop_session: the record moves only if stop_systemd_service succeeded.
AdminStopUnit(t) ==
    /\ th[t].pc = "stop_unit"
    /\ th[t].op = "admin_stop"
    /\ \E outcome \in StopOutcomes :
        LET rec == th[t]
        IN /\ units' = [units EXCEPT ![rec.id] = UnitAfterStop(@, outcome)]
           /\ IF outcome = "ok"
              THEN Set(t, [rec EXCEPT
                             !.snap = MoveToInactive(rec.snap, rec.id,
                                          AdminStopRecord(rec.snap.active_sessions[rec.id], now)),
                             !.stop = "ok", !.pc = "open",
                             !.fret = "none", !.resp = "success"])
              ELSE Set(t, Finish([rec EXCEPT !.stop = "failed"], "none", "error"))
    /\ UNCHANGED <<file, lock, videos, jobs, now, created, prev, disturbed, ops>>

----------------------------------------------------------------------------
(* Reconciliation sweep: recovery_orphaned_sessions of modules/recovery.py
   and of app.py *)

Kept(rec) ==
    [rec |-> rec, bucket |-> "active", start |-> FALSE, recovered |-> 0, moved |-> 0]

\* A move to the inactive bucket that is not counted (for C29's check).
DemotedUncounted(rec) ==
    [rec |-> rec, bucket |-> "inactive", start |-> FALSE, recovered |-> 0, moved |-> 0]

Demoted(rec) ==
    [rec |-> rec, bucket |-> "inactive", start |-> FALSE, recovered |-> 0, moved |-> 1]

\* The loop body of modules/recovery.py for one active record.  running is
\* what is_service_running answered, onDisk what os.path.exists answered,
\* startOk what create_systemd_service answers if it is called.
RecoverRecord(rec, running, onDisk, startOk, t) ==
    IF running THEN Kept(rec)
    ELSE IF rec.video_file = NONE THEN Kept(rec)
    ELSE IF ~onDisk
    THEN Demoted([rec EXCEPT !.stopped_at = Stamp(t),
                             !.stop_reason = "Video file not found during recovery",
                             !.status = "inactive"])
    ELSE IF rec.platform = NONE \/ rec.stream_key = NONE THEN Kept(rec)
    ELSE IF RtmpUrl(rec.platform) = NONE THEN Kept(rec)
    ELSE IF startOk
    THEN [rec |-> [rec EXCEPT !.recovered_at = Stamp(t),
                              !.recovery_count = <<RecoveryCount(rec) + 1>>],
          bucket |-> "active", start |-> TRUE, recovered |-> 1, moved |-> 0]
    ELSE [Demoted([rec EXCEPT !.stopped_at = Stamp(t),
                              !.stop_reason = "Recovery failed",
                              !.status = "inactive"])
          EXCEPT !.start = TRUE]

\* The loop body of app.py: it reads rtmp_url from the record and leaves
\* status alone.
AppRecoverRecord(rec, running, onDisk, startOk, t) ==
    IF running THEN Kept(rec)
    ELSE IF rec.video_file = NONE THEN Kept(rec)
    ELSE IF ~onDisk
    THEN Demoted([rec EXCEPT !.stopped_at = Stamp(t),
                             !.stop_reason = "Video file not found during recovery"])
    ELSE IF rec.rtmp_url = NONE \/ rec.stream_key = NONE THEN Kept(rec)
    ELSE IF startOk
    THEN [rec |-> [rec EXCEPT !.recovered_at = Stamp(t),
                              !.recovery_count = <<RecoveryCount(rec) + 1>>],
          bucket |-> "active", start |-> TRUE, recovered |-> 1, moved |-> 0]
    ELSE [Demoted([rec EXCEPT !.stopped_at = Stamp(t),
                              !.stop_reason = "Recovery failed"])
          EXCEPT !.start = TRUE]

\* The answer of is_service_running is not looked at (for C28's check).
RecoverUnprobed(impl, rec, running, onDisk, startOk, t) ==
    IF impl = "modules" THEN RecoverRecord(rec, FALSE, onDisk, startOk, t)
    ELSE AppRecoverRecord(rec, FALSE, onDisk, startOk, t)

Recover(impl, rec, running, onDisk, startOk, t) ==
    IF impl = "modules" THEN RecoverRecord(rec, running, onDisk, startOk, t)
    ELSE AppRecoverRecord(rec, running, onDisk, startOk, t)

\* The sweep writes the outcome for one record into sessions_data.
ApplyOutcome(data, id, r) ==
    IF r.bucket = "inactive" THEN MoveToInactive(data, id, r.rec)
    ELSE [data EXCEPT !.active_sessions = Put(@, id, r.rec)]

\* recovery_orphaned_sessions is entered by the periodic job of app.py and
\* by POST /api/recovery/manual of either implementation.
SweepEntries ==
    {[impl |-> "app", ctx |-> "timer"],
     [impl |-> "app", ctx |-> "manual"],
     [impl |-> "modules", ctx |-> "manual"]}

\* Load the store; an empty active bucket returns at once, without a save.
\* recovery_orphaned_sessions up to its loop: load the store, return at once
\* when the active bucket is empty.
SweepEnter(t, impl, ctx) ==
    /\ th[t].pc = "idle"
    /\ LET data == load_sessions(file)
           rec == [Idle EXCEPT !.op = "sweep", !.impl = impl, !.ctx = ctx,
                               !.pre = file, !.units0 = units, !.jobs0 = jobs,
                               !.seen = file, !.snap = data]
       IN IF DOMAIN data.active_sessions = {}
          THEN Set(t, Finish(rec, "counts", "none"))
          ELSE Set(t, [rec EXCEPT !.pc = "loop", !.todo = DOMAIN data.active_sessions])
    /\ UNCHANGED <<file, lock, units, videos, jobs, now, created, prev, disturbed>>

Sweep(t, impl, ctx) == Begun /\ SweepEnter(t, impl, ctx)

\* The arguments of a call of create_systemd_service.
StartCall(session_id, video_file, rtmp_url, stream_key) ==
    [session_id |-> session_id, video_file |-> video_file,
     rtmp_url |-> rtmp_url, stream_key |-> stream_key]

NoCall == StartCall(<< >>, NONE, NONE, NONE)

\* create_streaming_session's call.
CreateStartCall(req) ==
    StartCall(sanitize_service_name(req.session_name), req.video_file,
              RtmpUrl(req.platform), req.stream_key)

\* Either sweep passes the prefix the record carries (for C34's check).
SweepStartCallStored(impl, id, rec) ==
    StartCall(id, rec.video_file, rec.rtmp_url, rec.stream_key)

\* The sweep's call: modules/recovery.py resolves the prefix from the
\* platform, app.py passes the record's rtmp_url.
SweepStartCall(impl, id, rec) ==
    StartCall(id, rec.video_file,
              IF impl = "modules" THEN RtmpUrl(rec.platform) ELSE rec.rtmp_url,
              rec.stream_key)

\* What the sweep saw and did for one record (history, read by the properties).
Observation(impl, id, rec, unit, running, onDisk, r, startOk) ==
    [before |-> rec, unit |-> unit, reported |-> running, onDisk |-> onDisk,
     start |-> r.start, startOk |-> r.start /\ startOk, bucket |-> r.bucket,
     call |-> IF r.start THEN SweepStartCall(impl, id, rec) ELSE NoCall]

\* save_sessions after every record (for C30's check).
AfterRecordSaving(left) == "open"

\* save_sessions stands after the loop: the sweep goes on to it when no
\* record is left.
AfterRecord(left) == IF left = {} THEN "open" ELSE "loop"

\* One iteration of `for session_id, session_info in list(active_sessions.items())`.
SweepStep(t) ==
    /\ th[t].pc = "loop"
    /\ \E id \in th[t].todo, probeRaises \in BOOLEAN, outcome \in StartOutcomes :
        LET me == th[t]
            rec == me.snap.active_sessions[id]
            running == is_service_running(units[id], probeRaises)
            onDisk == rec.video_file \in videos
            r == Recover(me.impl, rec, running, onDisk, outcome = "ok", now)
            left == me.todo \ {id}
        IN /\ probeRaises => units[id] = "running"
           /\ ~r.start => outcome = "ok"
           /\ units' = IF r.start
                       THEN [units EXCEPT ![id] = UnitAfterStart(@, outcome)]
                       ELSE units
           /\ disturbed' = IF probeRaises THEN disturbed \cup {"probe"} ELSE disturbed
           /\ Set(t, [me EXCEPT
                        !.snap = ApplyOutcome(me.snap, id, r),
                        !.todo = left,
                        !.recovered = @ + r.recovered,
                        !.moved = @ + r.moved,
                        !.obs = Put(@, id, Observation(me.impl, id, rec, units[id], running, onDisk, r, outcome = "ok")),
                        !.total = Cardinality(DOMAIN ApplyOutcome(me.snap, id, r).active_sessions),
                        !.fret = "counts",
                        !.pc = AfterRecord(left)])
    /\ UNCHANGED <<file, lock, videos, jobs, now, created, prev, ops>>

----------------------------------------------------------------------------
(* Orphan-unit sweep: cleanup_unused_services of modules/recovery.py and of
   app.py, the second half of the manual recovery *)

\* `if session_id not in active_session_ids`
UnusedServices(listed, active_session_ids) == listed \ active_session_ids

\* cleanup_unused_services loads the store for the active ids.
CleanupLoad(t) ==
    /\ th[t].pc = "cleanup"
    /\ Set(t, [th[t] EXCEPT !.pc = "list", !.seen = file, !.snap = load_sessions(file)])
    /\ UNCHANGED <<file, lock, units, videos, jobs, now, created, prev, disturbed, ops>>

\* systemctl list-units: every unit stream-<id> that exists is a line of the
\* output.  If the call raises, the except branch returns 0.
CleanupList(t) ==
    /\ th[t].pc = "list"
    /\ LET me == [th[t] EXCEPT !.units1 = units]
           listed == {id \in DOMAIN units : units[id] # "none"}
           todo == UnusedServices(listed, DOMAIN me.snap.active_sessions)
       IN \/ Set(t, [me EXCEPT !.pc = "done", !.stop = "failed"])
          \/ Set(t, [me EXCEPT !.listed = listed, !.todo = todo,
                               !.pc = IF todo = {} THEN "done" ELSE "clean"])
    /\ UNCHANGED <<file, lock, units, videos, jobs, now, created, prev, disturbed, ops>>

\* One unused unit.  modules/recovery.py stops, disables and removes the unit
\* file itself (a removal that raises ends the sweep) and reloads the daemon
\* after the loop (a reload that fails makes it return 0); app.py calls
\* stop_systemd_service and goes on whatever it answers.
CleanupStep(t) ==
    /\ th[t].pc = "clean"
    /\ \E id \in th[t].todo :
        LET me == [th[t] EXCEPT !.touched = @ \cup {id}, !.todo = @ \ {id}]
            last == me.todo = {}
        IN IF me.impl = "modules"
           THEN \/ /\ units' = [units EXCEPT ![id] = "none"]
                   /\ \E reloadOk \in BOOLEAN :
                        /\ ~last => reloadOk
                        /\ Set(t, [me EXCEPT
                                     !.cleanup_count = IF reloadOk THEN @ + 1 ELSE 0,
                                     !.stop = IF reloadOk THEN @ ELSE "failed",
                                     !.pc = IF last THEN "done" ELSE "clean"])
                \/ /\ units' = [units EXCEPT ![id] = "dead"]
                   /\ Set(t, [me EXCEPT !.cleanup_count = 0, !.stop = "failed",
                                        !.pc = "done"])
           ELSE \E outcome \in StopOutcomes :
                   /\ units' = [units EXCEPT ![id] = UnitAfterStop(@, outcome)]
                   /\ Set(t, [me EXCEPT
                                !.cleanup_count = @ + 1,
                                !.stop = IF outcome = "ok" THEN @ ELSE "failed",
                                !.pc = IF last THEN "done" ELSE "clean"])
    /\ UNCHANGED <<file, lock, videos, jobs, now, created, prev, disturbed, ops>>

----------------------------------------------------------------------------
(* Scheduler: schedule_streaming_api *)

\* datetime.fromisoformat(start_time).replace(tzinfo=jakarta_tz) attaches the
\* zone's first offset (local mean time, +7:07), while datetime.now(jakarta_tz)
\* is at +7:00: start_dt lies that difference before the time the client
\* named.  The clock counts in units of the difference.
LmtSkew == 1

StartDt(start_time) == start_time - LmtSkew

\* The start time is not looked at (for C12's check).
InTheFutureUnchecked(start_dt, t) == TRUE

\* `if start_dt <= datetime.now(jakarta_tz)` rejects
InTheFuture(start_dt, t) == ~(start_dt <= t)

\* start and stop jobs share f"scheduled-{session_name}-{int(start_dt.timestamp())}".
StartJob(req, start_dt) ==
    [id |-> <<req.session_name, start_dt>>, kind |-> "start", run_date |-> start_dt,
     req |-> req]

StopJob(req, start_dt, duration) ==
    [id |-> <<req.session_name, start_dt>>, kind |-> "stop",
     run_date |-> start_dt + duration, req |-> req]

\* scheduler.add_job(..., id=job.id, replace_existing=True)
AddJob(table, job) ==
    {j \in table : ~(j.id = job.id /\ j.kind = job.kind)} \cup {job}

ScheduleRecord(req, start_dt, duration) ==
    [session_name |-> req.session_name, platform |-> req.platform,
     stream_key |-> req.stream_key, video_file |-> req.video_file,
     start_time |-> start_dt, duration |-> duration, status |-> "scheduled"]

\* POST /api/schedule
ScheduleApi(t, req, start, duration) ==
    /\ th[t].pc = "idle"
    /\ Begun
    /\ LET rec == [Idle EXCEPT !.op = "schedule", !.ctx = "request", !.req = req,
                               !.start = start, !.duration = duration,
                               !.pre = file, !.units0 = units, !.jobs0 = jobs]
           data == load_sessions(file)
           start_dt == StartDt(start)
           withStart == AddJob(jobs, StartJob(req, start_dt))
       IN IF ~AllFields(req) \/ ~InTheFuture(start_dt, now)
          THEN /\ Set(t, Finish(rec, "none", "bad_request"))
               /\ jobs' = jobs
          ELSE /\ jobs' = IF duration > 0
                          THEN AddJob(withStart, StopJob(req, start_dt, duration))
                          ELSE withStart
               /\ Set(t, [rec EXCEPT
                            !.seen = file,
                            !.snap = [data EXCEPT !.scheduled_sessions =
                                        Put(@, <<req.session_name, start_dt>>,
                                            ScheduleRecord(req, start_dt, duration))],
                            !.pc = "open", !.resp = "success"])
    /\ UNCHANGED <<file, lock, units, videos, now, created, prev, disturbed>>

----------------------------------------------------------------------------
(* Session names: what create_streaming_session makes of the name it is
   given, over names up to and beyond the length cap *)

MaxSuffix == 3      \* characters drawn freely at the end of a name

NameChars == {"a", "_", "-", "!"}

Suffixes == UNION {[1..n -> NameChars] : n \in 0..MaxSuffix}

\* Names around the cap: so many "a" and then a free suffix.
LongNames ==
    {[i \in 1..k |-> "a"] \o x : k \in {0, MaxIdLen - 2, MaxIdLen - 1, MaxIdLen},
                                 x \in Suffixes}

PostedNames == LongNames \cup {NameMyShow}

\* A client is about to post a YouTube create under one of the names.
InitNames ==
    /\ file = MissingFile
    /\ units = NoUnits
    /\ lock = NoThread
    /\ videos = VideoFiles
    /\ jobs = {}
    /\ now = 0
    /\ \E n \in PostedNames :
          th = [t \in Threads |->
                  [Idle EXCEPT !.req = Request("YouTube", StreamKey, "v1.mp4", n)]]
    /\ created = {}
    /\ prev = NoPrev
    /\ disturbed = {}
    /\ ops = 0

\* create_streaming_session's first statement and the unit file
\* create_systemd_service composes: the id and the destination.
ComposeUnit(t) ==
    /\ th[t].pc = "idle"
    /\ th[t].req # NoRequest
    /\ Begun
    /\ Set(t, Finish([th[t] EXCEPT !.op = "compose", !.ctx = "request",
                                   !.id = sanitize_service_name(th[t].req.session_name),
                                   !.dest = Destination(th[t].req)],
                     "id", "none"))
    /\ UNCHANGED <<file, lock, units, videos, jobs, now, created, prev, disturbed>>

NextNames == \E t \in Threads : ComposeUnit(t)

SpecNames == InitNames /\ [][NextNames]_vars

----------------------------------------------------------------------------
(* Environment *)

\* The environment moves between handlers: a handler runs within one reading
\* of the clock and one state of the videos directory and of the processes.
Quiet == \A t \in Threads : th[t].pc = "idle"

\* No handler branches on the clock except the scheduler, so the clock is
\* followed only while a job waits for its run date.
Tick ==
    /\ now < MaxTime
    /\ Quiet
    /\ \E j \in jobs : j.run_date > now
    /\ now' = now + 1
    /\ UNCHANGED <<file, lock, units, videos, jobs, th, created, prev, disturbed, ops>>

\* A video is removed from the videos directory.
DeleteVideo(v) ==
    /\ v \in videos
    /\ Quiet
    /\ videos' = videos \ {v}
    /\ disturbed' = disturbed \cup {"videos"}
    /\ UNCHANGED <<file, lock, units, jobs, now, th, created, prev, ops>>

\* The streaming process of a unit is no longer active.
UnitDies(id) ==
    /\ units[id] = "running"
    /\ Quiet
    /\ units' = [units EXCEPT ![id] = "dead"]
    /\ disturbed' = disturbed \cup {"units"}
    /\ UNCHANGED <<file, lock, videos, jobs, now, th, created, prev, ops>>

----------------------------------------------------------------------------
(* Specifications *)

StartTimes == {0, 1, 2}
Durations == {0, 1}

ThreadNext(t, counted) ==
    \/ \E req \in Requests : StartApi(t, req)
    \/ \E job \in jobs : TimerStart(t, job, counted)
    \/ CreateLoad(t)
    \/ \E id \in AllIds : StopApi(t, id)
    \/ StopLoad(t)
    \/ \E job \in jobs : TimerStop(t, job, counted)
    \/ TimerStopUnit(t)
    \/ \E id \in AllIds \ {<< >>} : AdminStop(t, id)   \* the route needs a non-empty <session_id>
    \/ AdminStopUnit(t)
    \/ \E e \in SweepEntries : Sweep(t, e.impl, e.ctx)
    \/ SweepStep(t)
    \/ CleanupLoad(t)
    \/ CleanupList(t)
    \/ CleanupStep(t)
    \/ \E req \in ScheduleRequests, start \in StartTimes, d \in Durations :
            ScheduleApi(t, req, start, d)
    \/ SaveOpen(t)
    \/ SaveWrite(t)
    \/ Return(t)

Environment ==
    \/ Tick
    \/ \E v \in VideoFiles : DeleteVideo(v)
    \/ \E id \in AllIds : UnitDies(id)

\* Handlers on all threads, interleaved.
Next == (\E t \in Threads : ThreadNext(t, TRUE)) \/ Environment

Spec == Init /\ [][Next]_vars

\* A step is taken in the end whenever a thread has one to take: the
\* interpreter keeps running the threads of the process.
\* The handlers of all threads interleaved over one session: the store holds
\* the record create wrote for 'a', its unit runs, and the requests name 'a'.
InitFair ==
    /\ Init
    /\ file = FileOf(WithActive(NameA,
                    SessionRecord(Owner, "v1.mp4", "YouTube", StreamKey, NONE, Stamp(0))))

NextFair ==
    \E t \in Threads :
        /\ ThreadNext(t, TRUE)
        /\ th'[t].req.session_name \in {<< >>, NameA}
        /\ th'[t].id \in {<< >>, NameA}

SpecFair == InitFair /\ [][NextFair]_vars /\ WF_vars(NextFair)

\* One handler at a time.
NextSeq == ThreadNext("t1", FALSE) \/ Environment

SpecSeq == Init /\ [][NextSeq]_vars

\* The interval job of init_scheduler: app.py's recovery_orphaned_sessions,
\* again and again, with no other handler and no change of the environment.
IntervalSweep(t) == ops' = ops /\ SweepEnter(t, "app", "timer")

UnitStates == {"none", "dead", "running"}

InitLive ==
    /\ \E i \in InitialStates : file = i.file
    /\ units \in [AllIds -> UnitStates]
    /\ lock = NoThread
    /\ videos \in SUBSET VideoFiles
    /\ jobs = {}
    /\ now = 0
    /\ th = [t \in Threads |-> Idle]
    /\ created = {}
    /\ prev = NoPrev
    /\ disturbed = {}
    /\ ops = 0

\* A probe that raises makes the sweep restart a running unit and count one
\* more recovery, sweep after sweep: the probe raises only while the counts
\* are below MaxRecoveries.
MaxRecoveries == 2

RecoveriesOf(data) ==
    {RecoveryCount(data.active_sessions[id]) : id \in DOMAIN data.active_sessions}

SweepStepLive(t) ==
    /\ SweepStep(t)
    /\ \A n \in RecoveriesOf(th'[t].snap) : n <= MaxRecoveries

NextLive ==
    \/ IntervalSweep("t1")
    \/ SweepStepLive("t1")
    \/ SaveOpen("t1")
    \/ SaveWrite("t1")
    \/ Return("t1")

\* The scheduler fires the interval job every five minutes and its thread
\* runs the job to its end.
SpecLive == InitLive /\ [][NextLive]_vars /\ WF_vars(NextLive)

----------------------------------------------------------------------------
(* Properties *)

Stored == load_sessions(file)
Active == DOMAIN Stored.active_sessions
Inactive == DOMAIN Stored.inactive_sessions

Done(t, kinds) == th[t].pc = "done" /\ th[t].op \in kinds

\* Both callers of create_streaming_session test the returned id for truth.
ReturnedId(me) == me.fret = "id" /\ me.id # << >>

\* C1: when a create completes, either an id was returned, the active bucket
\* on disk holds a record for it with status 'active' and the unit was
\* started, or failure was returned, no record was written and no unit was
\* started.
C1_CreateAllOrNothing ==
    \A t \in Threads :
        Done(t, {"create"}) =>
            LET me == th[t]
            IN \/ /\ ReturnedId(me)
                  /\ me.id \in Active
                  /\ Stored.active_sessions[me.id].status = "active"
                  /\ me.unit = "started"
               \/ /\ ~ReturnedId(me)
                  /\ me.saved # "ok"
                  /\ me.unit # "started"

\* C2: no session id is a key of the active bucket and of the inactive
\* bucket of the persisted store at the same time.
C2_NoIdInBothBuckets == Active \cap Inactive = {}

\* C3: once a create has saved its record and returned the id, the id stays
\* a key of the active or of the inactive bucket whenever the store file
\* holds a snapshot.
C3_NeverDeleted ==
    (lock = NoThread /\ file.kind = "json") => created \subseteq (Active \cup Inactive)

\* C4: two creates for different ids that ran at the same time and both
\* saved leave both ids in the persisted store (no lost update).
C4_NoLostUpdate ==
    \A t1, t2 \in Threads :
        (/\ Done(t1, {"create"}) /\ Done(t2, {"create"})
         /\ th[t1].id # th[t2].id
         /\ th[t1].saved = "ok" /\ th[t2].saved = "ok")
        => {th[t1].id, th[t2].id} \subseteq (Active \cup Inactive)

StopKinds == {"stop", "admin_stop"}

\* stop_streaming_session reports an id it did not find by returning False,
\* api_stop_session by the message 'Session not found'.
ReportedNotFound(me) ==
    IF me.op = "stop" THEN me.fret = "false" ELSE me.resp = "not_found"

\* C5: a stop of an id that is in the active bucket reports success and
\* moves the record to the inactive bucket; a stop that follows a successful
\* stop of the same id reports not-found and leaves the store as it was;
\* after a stop the id is not in both buckets.
C5_StopIdempotent ==
    \A t \in Threads :
        (Done(t, StopKinds) /\ th[t].ctx = "request" /\ th[t].id # << >>) =>
            LET me == th[t]
                before == load_sessions(me.pre)
            IN /\ me.id \in DOMAIN before.active_sessions =>
                    /\ me.resp = "success"
                    /\ me.id \in Inactive
                    /\ me.id \notin Active
               /\ (prev.op \in StopKinds /\ prev.id = me.id) =>
                    /\ ReportedNotFound(me)
                    /\ file = me.pre
               /\ me.id \notin Active \cap Inactive

\* C6: a stop of an id in the active bucket whose supervisor stop failed has
\* still stamped the record, moved it to the inactive bucket of its snapshot
\* and called the save.
C6_StopFailureStillMoves ==
    \A t \in Threads :
        (/\ Done(t, StopKinds)
         /\ th[t].stop = "failed"
         /\ th[t].id \in DOMAIN load_sessions(th[t].pre).active_sessions)
        => LET me == th[t]
           IN /\ me.id \in DOMAIN me.snap.inactive_sessions
              /\ me.id \notin DOMAIN me.snap.active_sessions
              /\ me.snap.inactive_sessions[me.id].stopped_at # Unset
              /\ me.saved # "none"

\* C7: every record in the inactive bucket has stopped_at and stop_reason;
\* one that a stop request moved there has stop_reason 'Stopped by admin'
\* and status 'inactive'.
C7_InactiveIsStamped ==
    /\ \A id \in Inactive :
        /\ Stored.inactive_sessions[id].stopped_at # Unset
        /\ Stored.inactive_sessions[id].stop_reason # NONE
    /\ \A t \in Threads :
        (Done(t, StopKinds) /\ th[t].ctx = "request"
         /\ th[t].resp = "success" /\ th[t].saved = "ok") =>
            /\ th[t].snap.inactive_sessions[th[t].id].stop_reason = "Stopped by admin"
            /\ th[t].snap.inactive_sessions[th[t].id].status = "inactive"

\* C8: a sweep that finds the unit of an active record not running, and the
\* record's video_file absent or missing on disk, does not call the
\* supervisor start for it, moves it to the inactive bucket with stop_reason
\* 'Video file not found during recovery', and does not count it recovered.
C8_MissingVideoIsDemoted ==
    \A t \in Threads : \A id \in DOMAIN th[t].obs :
        LET o == th[t].obs[id]
            snap == th[t].snap
        IN (o.unit # "running" /\ (o.before.video_file = NONE \/ ~o.onDisk)) =>
            /\ ~o.start
            /\ id \notin DOMAIN snap.active_sessions
            /\ id \in DOMAIN snap.inactive_sessions
            /\ snap.inactive_sessions[id].stop_reason = "Video file not found during recovery"

\* C9: a sweep that finds the unit of an active record not running, its
\* video on disk and its platform and stream_key present calls the
\* supervisor start; on success the record stays active with recovered_at
\* stamped and recovery_count one higher, on failure it is moved to the
\* inactive bucket with stop_reason 'Recovery failed'.
C9_RestartOrDemote ==
    \A t \in Threads : \A id \in DOMAIN th[t].obs :
        LET o == th[t].obs[id]
            snap == th[t].snap
        IN (/\ o.unit # "running" /\ o.onDisk
            /\ o.before.platform # NONE /\ o.before.stream_key # NONE) =>
            /\ o.start
            /\ o.startOk =>
                /\ id \in DOMAIN snap.active_sessions
                /\ snap.active_sessions[id].recovered_at # Unset
                /\ RecoveryCount(snap.active_sessions[id]) = RecoveryCount(o.before) + 1
            /\ ~o.startOk =>
                /\ id \notin DOMAIN snap.active_sessions
                /\ id \in DOMAIN snap.inactive_sessions
                /\ snap.inactive_sessions[id].stop_reason = "Recovery failed"

\* A sweep has returned right after a sweep of the same implementation.
SecondSweep(t) ==
    /\ Done(t, {"sweep"})
    /\ prev.op = "sweep"
    /\ prev.impl = th[t].impl

SweepWasIdle(t) ==
    /\ th[t].recovered = 0
    /\ th[t].moved = 0
    /\ file = th[t].pre

\* C10: a sweep run right after a sweep, with no other operation and no
\* supervisor change between the two, recovers nothing, moves nothing and
\* leaves the store as the first run left it.
C10_SecondSweepIdle ==
    \A t \in Threads :
        (SecondSweep(t) /\ disturbed \cap {"units", "videos"} = {}) => SweepWasIdle(t)

\* The manual recovery has returned: th[t].units1 are the units as the
\* orphan-unit sweep found them, th[t].snap the store as it loaded it.
CleanupDone(t) == Done(t, {"sweep"}) /\ th[t].ctx = "manual"

UnusedAreGone(t) ==
    \A id \in AllIds :
        (th[t].units1[id] # "none" /\ id \notin DOMAIN th[t].snap.active_sessions)
            => units[id] = "none"

ActiveAreUntouched(t) ==
    \A id \in DOMAIN th[t].snap.active_sessions \cap AllIds :
        id \notin th[t].touched /\ units[id] = th[t].units1[id]

\* C11: when the manual recovery's orphan-unit sweep has returned, no unit is
\* left of those there were whose id is not a key of the active bucket, and no
\* unit whose id is a key of the active bucket was touched.
C11_CleanupExact ==
    \A t \in Threads : CleanupDone(t) => UnusedAreGone(t) /\ ActiveAreUntouched(t)

C13_TimerStartInserts ==
    \A t \in Threads :
        (/\ Done(t, {"create"})
         /\ th[t].ctx = "timer"
         /\ th[t].req.video_file \in videos
         /\ th[t].unit = "started")
            => /\ th[t].id \in Active
               /\ Stored.active_sessions[th[t].id].status = "active"

\* The stop jobs a schedule request added to the job table.
StopJobsAdded(me) == {j \in jobs \ me.jobs0 : j.kind = "stop"}

\* C14: a stop timer that runs right after the start timer of its schedule
\* started the unit leaves the sanitized session name in the inactive bucket
\* and not in the active one; a schedule request with duration 0 adds no stop
\* job.
C14_StopTimerMoves ==
    \A t \in Threads :
        /\ (/\ Done(t, {"stop"})
            /\ th[t].ctx = "timer"
            /\ prev.op = "timer_create"
            /\ prev.id = sanitize_service_name(th[t].req.session_name))
               => /\ prev.id \in Inactive
                  /\ prev.id \notin Active
        /\ (Done(t, {"schedule"}) /\ th[t].resp = "success" /\ th[t].duration = 0)
               => StopJobsAdded(th[t]) = {}

\* The jobs a schedule request defines: a start job, and a stop job when its
\* duration is positive.
JobsDefined(me) ==
    {StartJob(me.req, StartDt(me.start))}
        \cup (IF me.duration > 0
              THEN {StopJob(me.req, StartDt(me.start), me.duration)} ELSE {})

\* C15: when a schedule request has been accepted and saved, the scheduled
\* bucket holds under its job id the record of this request, and the pending
\* jobs of that id are the ones this request defines.
C15_ReRegistrationReplaces ==
    \A t \in Threads :
        (Done(t, {"schedule"}) /\ th[t].resp = "success" /\ th[t].saved = "ok") =>
            LET me == th[t]
                job_id == <<me.req.session_name, StartDt(me.start)>>
            IN /\ job_id \in DOMAIN Stored.scheduled_sessions
               /\ Stored.scheduled_sessions[job_id]
                    = ScheduleRecord(me.req, StartDt(me.start), me.duration)
               /\ {j \in jobs : j.id = job_id} = JobsDefined(me)

AllKinds == {"create", "stop", "admin_stop", "sweep", "schedule"}

\* C16: when a handler's save has failed, the store read from disk is the
\* store that was there when the handler began.
C16_FailedSaveKeepsFile ==
    \A t \in Threads :
        (Done(t, AllKinds) /\ th[t].saved = "failed")
            => load_sessions(file) = load_sessions(th[t].pre)

\* C17: a create, a stop or a schedule request whose save has failed does not
\* answer success and returns no id.
C17_FailedSaveIsReported ==
    \A t \in Threads :
        (Done(t, {"create", "stop", "schedule"}) /\ th[t].saved = "failed") =>
            /\ th[t].resp # "success"
            /\ ~ReturnedId(th[t])

\* The handler holds in snap what load_sessions has just returned from the
\* file in seen: the orphan-unit sweep before it lists the units, a stop timer
\* that found no record.
JustLoaded(t) ==
    \/ th[t].pc = "list"
    \/ Done(t, {"stop"}) /\ th[t].ctx = "timer" /\ th[t].stop = "none"

ThreeEmptyBuckets(data) ==
    /\ DOMAIN data = {"active_sessions", "inactive_sessions", "scheduled_sessions"}
    /\ \A b \in DOMAIN data : DOMAIN data[b] = {}

\* C18: load_sessions on a missing or a blank file returns three empty
\* buckets, and load_json_file does not go through its error branch.
C18_MissingOrBlankLoadsEmpty ==
    \A t \in Threads :
        (JustLoaded(t) /\ th[t].seen.kind \in {"missing", "blank"}) =>
            /\ th[t].snap = load_sessions(th[t].seen)
            /\ ThreeEmptyBuckets(th[t].snap)
            /\ ~load_json_file(th[t].seen, DefaultStore).error

\* A handler has loaded the file a failed save left empty.
C18_Witness ==
    \E t \in Threads : JustLoaded(t) /\ th[t].seen.kind = "blank"

\* C19: when a create is over whose id was a key of the active or of the
\* inactive bucket when it began, the record that was there is still there as
\* it was, and a key of the inactive bucket has not become a key of the active
\* one as well.
C19_CreateKeepsExisting ==
    \A t \in Threads :
        (Done(t, {"create"}) /\ th[t].saved # "failed") =>
            LET old == load_sessions(th[t].pre)
                id == sanitize_service_name(th[t].req.session_name)
            IN /\ id \in DOMAIN old.active_sessions =>
                    /\ id \in Active
                    /\ Stored.active_sessions[id] = old.active_sessions[id]
               /\ id \in DOMAIN old.inactive_sessions =>
                    /\ id \in Inactive
                    /\ Stored.inactive_sessions[id] = old.inactive_sessions[id]
                    /\ id \notin Active

Supported == {"YouTube", "Facebook"}

\* C20: a create for a platform other than YouTube and Facebook returns no
\* id and does not answer success, the supervisor was not called, the units
\* are what they were, nothing was saved and the file is what it was.
C20_UnsupportedPlatformNoState ==
    \A t \in Threads :
        (Done(t, {"create"}) /\ th[t].req.platform \notin Supported) =>
            /\ ~ReturnedId(th[t])
            /\ th[t].resp # "success"
            /\ th[t].unit = "none"
            /\ units = th[t].units0
            /\ th[t].saved = "none"
            /\ file = th[t].pre

\* A complete request for Twitch, its video on disk, has been answered.
C20_Witness ==
    \E t \in Threads :
        /\ Done(t, {"create"})
        /\ AllFields(th[t].req)
        /\ th[t].req.platform \notin Supported
        /\ th[t].req.video_file \in videos
        /\ th[t].resp = "error"

\* C21: a create whose video file is not on disk is over without a supervisor
\* call and without a record: the units and the file are what they were.
C21_MissingVideoRejected ==
    \A t \in Threads :
        (Done(t, {"create"}) /\ th[t].req.video_file \notin videos) =>
            /\ th[t].unit = "none"
            /\ units = th[t].units0
            /\ file = th[t].pre
            /\ ~ReturnedId(th[t])

NoHyphenPair(id) == \A i \in 1..(Len(id) - 1) : ~(id[i] = "-" /\ id[i + 1] = "-")

\* C22: the id made of a name has only word characters and hyphens, no two
\* hyphens in a row, no hyphen first or last, and at most 50 characters; the
\* id of 'My Show!' is 'My-Show', and a YouTube create with key 'abc' streams
\* to rtmp://a.rtmp.youtube.com/live2/abc.
C22_SanitizedId ==
    \A t \in Threads :
        Done(t, {"compose"}) =>
            LET id == th[t].id
            IN /\ \A i \in 1..Len(id) : id[i] \in WordChars \cup {"-"}
               /\ NoHyphenPair(id)
               /\ Len(id) > 0 => id[1] # "-" /\ id[Len(id)] # "-"
               /\ Len(id) <= 50
               /\ th[t].req.session_name = NameMyShow =>
                    id = <<"M", "y", "-", "S", "h", "o", "w">>
               /\ th[t].dest = <<"rtmp://a.rtmp.youtube.com/live2", "/", "abc">>

\* Nothing but a sweep is under way on another thread.
OnlySweepBeside(t) == \A u \in Threads \ {t} : th[u].op \in {"none", "sweep"}

\* C23: once a stop has saved its move to the inactive bucket and answered
\* success, the id is not a key of the active bucket of the store on disk,
\* whatever a sweep on another thread does.
C23_StoppedStaysInactive ==
    \A t \in Threads :
        (/\ Done(t, StopKinds)
         /\ th[t].resp = "success"
         /\ th[t].saved = "ok"
         /\ OnlySweepBeside(t)
         /\ lock = NoThread
         /\ file.kind = "json")
            => th[t].id \notin Active

\* C24: a stop for an id that was not a key of the active bucket when it
\* began has made no supervisor call, has changed no unit and has not written
\* the store.
C24_StopOfUnknownIsNoOp ==
    \A t \in Threads :
        (/\ Done(t, StopKinds)
         /\ th[t].ctx = "request"
         /\ th[t].id \notin DOMAIN load_sessions(th[t].pre).active_sessions)
            => /\ th[t].stop = "none"
               /\ units = th[t].units0
               /\ th[t].saved = "none"
               /\ file = th[t].pre

\* A handler reads the file in this step: what it has seen becomes the file
\* as it is now.
LoadsNow(t) ==
    /\ th'[t].pc # "idle"
    /\ th'[t].seen # th[t].seen
    /\ th'[t].seen = file

\* C25: while a save of another thread over a store with sessions is between
\* its open and the end of its write, no handler reads the file, so that no
\* load sees the file that open has truncated.
C25_LoadNeverSeesTruncation ==
    [][\A t \in Threads :
         (/\ lock # NoThread
          /\ lock # t
          /\ th[lock].pre.kind = "json") => ~LoadsNow(t)]_vars

\* The handler's load went through load_json_file's error branch.  (After a
\* manual recovery seen is what its orphan-unit sweep read, later than the
\* save.)
LoadFailed(me) == me.ctx # "manual" /\ load_json_file(me.seen, DefaultStore).error

\* C26: a create, a stop, a schedule request or a sweep whose load of the
\* store failed does not answer success, returns no id, and has not written
\* the store: the file is the one it could not read.
C26_FailedLoadIsReported ==
    \A t \in Threads :
        (Done(t, AllKinds) /\ LoadFailed(th[t])) =>
            /\ th[t].resp # "success"
            /\ ~ReturnedId(th[t])
            /\ th[t].saved = "none"
            /\ file = th[t].seen

\* The sweep is in its loop or about to save: snap is sessions_data.
Sweeping(t) == th[t].op = "sweep" /\ th[t].pc \in {"loop", "open", "write"}

\* What the inactive bucket holds under the id is what it held when the
\* sweep loaded the store.
InactiveAsLoaded(t, id) ==
    LET old == load_sessions(th[t].pre).inactive_sessions
        new == th[t].snap.inactive_sessions
    IN /\ (id \in DOMAIN new) = (id \in DOMAIN old)
       /\ id \in DOMAIN old => new[id] = old[id]

\* The sweep left the record it looked at where and as it was, and called
\* the supervisor neither to start nor to stop its unit.
LeftAlone(t, id) ==
    /\ ~th[t].obs[id].start
    /\ th[t].obs[id].bucket = "active"
    /\ id \in DOMAIN th[t].snap.active_sessions
    /\ th[t].snap.active_sessions[id] = th[t].obs[id].before
    /\ InactiveAsLoaded(t, id)

\* C27: a record the sweep found with its unit not running, its video on
\* disk, and its platform or its stream key missing is left alone.
C27_IncompleteIsSkipped ==
    \A t \in Threads :
        Sweeping(t) =>
            \A id \in DOMAIN th[t].obs :
                LET o == th[t].obs[id]
                IN (/\ ~o.reported
                    /\ o.before.video_file # NONE
                    /\ o.onDisk
                    /\ (o.before.platform = NONE \/ o.before.stream_key = NONE))
                       => LeftAlone(t, id)

\* C28: a record whose unit the supervisor reported running when the sweep
\* looked at it is left alone.
C28_RunningIsUntouched ==
    \A t \in Threads :
        Sweeping(t) =>
            \A id \in DOMAIN th[t].obs : th[t].obs[id].reported => LeftAlone(t, id)

\* A sweep has passed a complete record whose unit runs, and is about to save.
C28_Witness ==
    \E t \in Threads :
        /\ Sweeping(t)
        /\ th[t].pc = "open"
        /\ \E id \in DOMAIN th[t].obs :
            LET o == th[t].obs[id]
            IN /\ o.reported
               /\ o.onDisk
               /\ o.before.platform = "YouTube"
               /\ o.before.stream_key # NONE
               /\ units[id] = "running"

\* The loop of the sweep is over: its counts are the ones it returns.
SweepCounted(t) == th[t].op = "sweep" /\ th[t].pc # "loop"

Repaired(me) == {id \in DOMAIN me.obs : me.obs[id].startOk}

MovedAway(me) == {id \in DOMAIN me.obs : me.obs[id].bucket = "inactive"}

\* C29: the sweep returns its counts, whether or not its save succeeded:
\* recovered is the number of records whose unit it started, moved_to_inactive
\* the number of records it moved, total_active the size of the active bucket
\* it loaded less the records it moved, which is the size of the active bucket
\* of the snapshot it saves.
C29_CountsMatch ==
    \A t \in Threads :
        SweepCounted(t) =>
            LET me == th[t]
            IN /\ me.fret = "counts"
               /\ me.recovered = Cardinality(Repaired(me))
               /\ me.moved = Cardinality(MovedAway(me))
               /\ me.total = Cardinality(DOMAIN load_sessions(me.pre).active_sessions)
                                - me.moved
               /\ me.pc \in {"open", "write"} =>
                    me.total = Cardinality(DOMAIN me.snap.active_sessions)

\* A sweep that moved a record away has returned after its save failed.
C29_Witness ==
    \E t \in Threads :
        /\ Done(t, {"sweep"})
        /\ th[t].saved = "failed"
        /\ th[t].moved = 1
        /\ th[t].total = 1

\* C30: a step of a sweep that changes the file is a step of its one save,
\* taken when no record is left to look at; a sweep that loaded an empty
\* active bucket takes no such step.
C30_SavedOnceAtTheEnd ==
    [][\A t \in Threads :
         (th[t].op = "sweep" /\ file' # file) =>
            /\ th[t].pc \in {"open", "write"}
            /\ th[t].todo = {}
            /\ th[t].saved = "none"
            /\ DOMAIN load_sessions(th[t].pre).active_sessions # {}]_vars

\* A sweep over two records has saved.
C30_Witness ==
    \E t \in Threads :
        /\ Done(t, {"sweep"})
        /\ Cardinality(DOMAIN th[t].obs) = 2
        /\ th[t].saved = "ok"
        /\ file # th[t].pre

\* recovery_count of the record the store holds under an id, 0 without one.
CountIn(data, id) ==
    IF id \in DOMAIN data.active_sessions
    THEN RecoveryCount(data.active_sessions[id])
    ELSE IF id \in DOMAIN data.inactive_sessions
    THEN RecoveryCount(data.inactive_sessions[id])
    ELSE 0

Written(rec) ==
    [username |-> rec.username, video_file |-> rec.video_file,
     platform |-> rec.platform, stream_key |-> rec.stream_key,
     started_at |-> rec.started_at]

\* C32: the record a stop has moved to the inactive bucket, and the record a
\* sweep has stamped or moved, have the owner, the video file, the platform,
\* the stream key and started_at of the record that was loaded.
C32_WrittenOnce ==
    \A t \in Threads :
        /\ (th[t].op \in StopKinds /\ th[t].pc \in {"open", "write"}) =>
                LET old == load_sessions(th[t].seen).active_sessions
                IN /\ th[t].id \in DOMAIN old
                   /\ th[t].id \in DOMAIN th[t].snap.inactive_sessions
                   /\ Written(th[t].snap.inactive_sessions[th[t].id]) = Written(old[th[t].id])
        /\ Sweeping(t) =>
                \A id \in DOMAIN th[t].obs :
                    LET o == th[t].obs[id]
                        new == IF o.bucket = "active"
                               THEN th[t].snap.active_sessions[id]
                               ELSE th[t].snap.inactive_sessions[id]
                    IN Written(new) = Written(o.before)

\* A stop is about to save the record it has stamped and moved.
C32_Witness ==
    \E t \in Threads :
        /\ th[t].op = "stop"
        /\ th[t].pc = "open"
        /\ th[t].snap.inactive_sessions[th[t].id].stopped_at # Unset
        /\ th[t].snap.inactive_sessions[th[t].id].stream_key = StreamKey

\* C33: every record of the active bucket on disk has status 'active' and
\* every record of the inactive bucket has status 'inactive'.
C33_StatusAgreesWithBucket ==
    /\ \A id \in Active : Stored.active_sessions[id].status = "active"
    /\ \A id \in Inactive : Stored.inactive_sessions[id].status = "inactive"

\* The record under the id is one create_streaming_session wrote for the
\* request (a sweep may have stamped it since).
WrittenBy(req, id, rec) ==
    /\ AllFields(req)
    /\ RtmpUrl(req.platform) # NONE
    /\ id = sanitize_service_name(req.session_name)
    /\ rec.rtmp_url = NONE
    /\ Written(rec) = Written(NewSessionRecord(Owner, req, rec.started_at[1]))

\* C34: when a sweep of either implementation starts the unit of a record
\* that create wrote, it passes the arguments create passed: the id, the video
\* file, the prefix of the platform and the stream key.
C34_RestartAsCreated ==
    \A t \in Threads :
        th[t].op = "sweep" =>
            \A id \in DOMAIN th[t].obs, req \in Requests :
                (th[t].obs[id].start /\ WrittenBy(req, id, th[t].obs[id].before))
                    => th[t].obs[id].call = CreateStartCall(req)

\* The sweep of modules/recovery.py has restarted a session that create wrote.
C34_Witness ==
    \E t \in Threads :
        /\ th[t].op = "sweep"
        /\ th[t].impl = "modules"
        /\ \E id \in DOMAIN th[t].obs, req \in Requests :
            /\ th[t].obs[id].startOk
            /\ id \in created
            /\ WrittenBy(req, id, th[t].obs[id].before)

\* C35: with the periodic sweep firing again and again and nothing else
\* running, every active record whose unit is not running eventually has a
\* running unit or lies in the inactive bucket.
C35_EventuallyReconciled ==
    \A id \in AllIds :
        (id \in Active /\ units[id] # "running")
            ~> (units[id] = "running" \/ id \in Inactive)

\* The lock is held only between open(file_path, 'w') and the end of
\* json.dump.
HeldWhileWriting == lock # NoThread => th[lock].pc = "write"

\* The holder's next step releases the lock and is no supervisor call; the
\* lock is taken only by a handler that has reached its save.
HolderStep ==
    \A t \in Threads :
        /\ (lock = t /\ th'[t] # th[t]) => (lock' = NoThread /\ units' = units)
        /\ (lock # t /\ lock' = t) => th[t].pc = "open"

\* C36: no handler holds the sessions lock while it calls the supervisor or
\* looks for a video, every acquisition is followed by a release, and every
\* handler that has begun returns, however the handlers interleave.
C36_LockNeverBlocks ==
    /\ []HeldWhileWriting
    /\ [][HolderStep]_vars
    /\ \A t \in Threads : (th[t].pc # "idle") ~> (th[t].pc = "idle")

\* A handler waits at its save while the other holds the lock.
C36_Witness ==
    \E t \in Threads :
        /\ lock = t
        /\ \E u \in Threads \ {t} : th[u].pc = "open"

\* The start job of the schedule is still waiting for its run date.
StartPending(job_id) == \E j \in jobs : j.kind = "start" /\ j.id = job_id

\* C37: a record of the scheduled bucket has status 'scheduled' only while
\* its start job is pending; once the job has fired, the record no longer
\* reads 'scheduled'.
C37_ScheduledWhilePending ==
    \A job_id \in DOMAIN Stored.scheduled_sessions :
        Stored.scheduled_sessions[job_id].status = "scheduled" => StartPending(job_id)

\* Nothing but a manual recovery, with its orphan-unit sweep, is under way on
\* another thread.
OnlyCleanupBeside(t) ==
    \A u \in Threads \ {t} : th[u].op = "sweep" /\ th[u].ctx = "manual"

\* C38: when a create has saved its record and returns an id, the unit of the
\* id exists, even though an orphan-unit sweep ran while the create was under
\* way.
C38_UnitSurvivesCleanup ==
    \A t \in Threads :
        (/\ Done(t, {"create"})
         /\ ReturnedId(th[t])
         /\ th[t].saved = "ok"
         /\ OnlyCleanupBeside(t))
            => units[th[t].id] # "none"

\* C39: when a manual recovery whose save did not fail has returned, with no
\* other handler under way, every unit that exists has its id in the active
\* bucket of the store.
C39_UnitsAreActive ==
    \A t \in Threads :
        (CleanupDone(t) /\ th[t].saved # "failed")
            => \A id \in AllIds : units[id] # "none" => id \in Active

====
